---- MODULE Spec2Model ----
(***************************************************************************)
(* Stereo delay LADSPA plugin (src/rust/src/lib.rs).                       *)
(*                                                                         *)
(* Amplitudes (ladspa::Data = f32) are modelled as integers; the values    *)
(* drawn for inputs are small even integers and the mix coefficients are   *)
(* multiples of 1/One, so every product and sum of the blend is exactly    *)
(* representable in f32 and the integer arithmetic below is the f32        *)
(* arithmetic of the code.  Left amplitudes are in units of 1/2 and right  *)
(* amplitudes in units of 1/4, so the frame <<2, 4>> is (1.0, 1.0) and a   *)
(* mix-up of the channels shows.  Delays are given in ticks of 1/DelayDen  *)
(* second.  usize arithmetic is modelled with its two build outcomes on    *)
(* underflow: a panic (overflow checks on) or a wrap modulo 2^64.          *)
(***************************************************************************)
EXTENDS Integers, Sequences, FiniteSets, TLC

\* ------------------------------------------------------------------------
\* Program constants

MAX_DELAY == 5

\* the literal 1.0 of the blend, in mix units: a mix value m stands for m/One
One == 2

\* a delay port value d stands for d/DelayDen seconds
DelayDen == 2

\* width of usize
UsizeBits == 64

\* ------------------------------------------------------------------------
\* Bounds of the model

MaxBlock == 2
MaxFrames == 7
MaxPairFrames == 2

\* a host that passes sample rate 0, and one whose buffer has 6 frames
SampleRates == {0, 1}

Silence == <<0, 0>>
\* the frame (1.0, 1.0)
Unit == <<2, 4>>
Frames == {Silence, Unit}
\* 0.0, 0.5, 1.0
Mixes == {0, 1, 2}
\* the declared range of the delay ports, [0, MAX_DELAY] seconds
InRange(t) == 0 <= t /\ t <= MAX_DELAY * DelayDen
\* 0 s, 1.5 s, 4.5 s, 5 s: in the declared range
InRangeTicks == {0, 3, 9, 10}
\* 6 s, 7 s and 13.5 s: above the declared range
OverTicks == {12, 14, 27}
AllTicks == InRangeTicks \cup OverTicks
\* the delays held fixed over a stream: 0 s, 1.5 s, 5 s
StreamTicks == {0, 3, 10}
\* the delays and mixes of two executions side by side
PairTicks == {0, 3}
PairMixes == {1, 2}

Blocks == UNION {[1..n -> Frames] : n \in 0..MaxBlock}

\* ------------------------------------------------------------------------
\* Pure helpers

RECURSIVE PowMod(_, _, _)
\* b^e mod m, by squaring
PowMod(b, e, m) ==
    IF e = 0 THEN 1 % m
    ELSE IF e % 2 = 0 THEN PowMod((b * b) % m, e \div 2, m)
    ELSE (b * PowMod(b, e - 1, m)) % m

\* 2^64 mod len: the residue a wrapped usize value is shifted by
UsizeModLen(len) == PowMod(2, UsizeBits, len)

\* mutant: the buffer sized without the extra frame
BufLenNoExtra(rate) == (rate * MAX_DELAY * 1) \div 1

\* (self.sample_rate * MAX_DELAY * 1.0) as usize + 1
BufLen(rate) == ((rate * MAX_DELAY * 1) \div 1) + 1

\* (*ports[4].unwrap_control() * self.sample_rate) as usize
DelaySamples(ticks, rate) == (ticks * rate) \div DelayDen

\* mutant: the dry and wet weights exchanged
BlendSwapped(input, wet, mix) == (input * mix + (One - mix) * wet) \div One

\* input * (1.0 - dry_wet) + dry_wet * wet
Blend(input, wet, mix) == (input * (One - mix) + mix * wet) \div One

\* mutant: the read base one slot further back
ReadBaseOffByOne(idx, len, delay) == idx + len - delay - 1

\* mutant: the read base taken without adding the buffer length
ReadBaseNoLen(idx, len, delay) == idx - delay

\* self.buf_idx + self.buf.len() - delay : the mathematical value; a negative
\* value is an underflow of the usize subtraction
ReadBase(idx, len, delay) == idx + len - delay

\* (buffer_read_idx + ii) % buf_len, where a negative base stands for the
\* wrapped value base + 2^64 (the addition wraps back when base + ii >= 0)
ReadIdx(base, ii, len) ==
    IF base + ii >= 0 THEN (base + ii) % len
    ELSE (((base + ii) % len) + UsizeModLen(len)) % len

\* mutant: the frame written one slot after its place
WriteIdxNext(idx, ii, len) == (ii + idx + 1) % len

\* mutant: the frame written at the block position, ignoring the cursor
WriteIdxNoCursor(idx, ii, len) == ii % len

\* (ii + self.buf_idx) % buf_len
WriteIdx(idx, ii, len) == (ii + idx) % len

\* mutant: the cursor advanced without the reduction modulo the buffer length
AdvanceNoWrap(idx, n, len) == idx + n

\* mutant: the cursor advanced by one frame per call
AdvanceByOne(idx, n, len) == (idx + 1) % len

\* self.buf_idx += sample_count; self.buf_idx %= buf_len
Advance(idx, n, len) == (idx + n) % len

\* mutant: the buffer filled with a non-silent frame
UnitBuf(len) == [j \in 0..(len - 1) |-> Unit]

\* a Vec of len frames of silence, indexed from 0
ZeroBuf(len) == [j \in 0..(len - 1) |-> Silence]

\* mutant: an instance created with one frame already allocated
OneFrameBuf == ZeroBuf(1)

\* Vec::new()
EmptyBuf == ZeroBuf(0)

\* self.buf.len()
BLen(b) == Cardinality(DOMAIN b)

\* mutant: resize without the clear, which keeps the frames already there
ResizeOnly(b, len) ==
    [j \in 0..(len - 1) |-> IF j \in DOMAIN b THEN b[j] ELSE Silence]

\* self.buf.clear(); self.buf.resize(len, (0.0, 0.0))
ClearResize(b, len) == ZeroBuf(len)

\* mutant: both channels read at the left channel's delay
WetLeftDelay(b, base, ii, len, c) == b[ReadIdx(base[1], ii, len)][c]

\* self.buf[(buffer_read_idx.c + ii) % buf_len].c : the wet sample of channel c
Wet(b, base, ii, len, c) == b[ReadIdx(base[c], ii, len)][c]

RECURSIVE RunLoop(_, _, _, _, _, _, _)
\* the for loop of run from frame ii (counted from 1) on;
\* st = [buf, out, reads, writes, ok]; a buffer of length 0 makes the first
\* index computation panic (remainder with a divisor of zero)
RunLoop(st, ii, input, base, mix, idx, len) ==
    IF ii > Len(input) \/ ~st.ok THEN st
    ELSE IF len = 0 THEN [st EXCEPT !.ok = FALSE]
    ELSE
      LET in == input[ii]
          r0 == ReadIdx(base[1], ii - 1, len)
          r1 == ReadIdx(base[2], ii - 1, len)
          w  == WriteIdx(idx, ii - 1, len)
          o  == <<Blend(in[1], Wet(st.buf, base, ii - 1, len, 1), mix[1]),
                  Blend(in[2], Wet(st.buf, base, ii - 1, len, 2), mix[2])>>
      IN RunLoop([buf    |-> [st.buf EXCEPT ![w] = in],
                  out    |-> Append(st.out, o),
                  reads  |-> Append(st.reads, <<r0, r1>>),
                  writes |-> Append(st.writes, w),
                  ok     |-> TRUE],
                 ii + 1, input, base, mix, idx, len)

\* Delay::run as a function of the instance state and the ports; checks says
\* whether the build panics on arithmetic overflow.
\* Result: the new buf and buf_idx, the output block, the indices used,
\* whether the read-index subtraction underflowed, and whether the call
\* completed (ok) or panicked.
RunCall(b, idx, rate, checks, input, ticks, mix) ==
    LET n     == Len(input)
        len   == BLen(b)
        delay == <<DelaySamples(ticks[1], rate), DelaySamples(ticks[2], rate)>>
        base  == <<ReadBase(idx, len, delay[1]), ReadBase(idx, len, delay[2])>>
        under == base[1] < 0 \/ base[2] < 0
        st0   == [buf |-> b, out |-> <<>>, reads |-> <<>>, writes |-> <<>>,
                  ok |-> TRUE]
    IN IF under /\ checks
       THEN [buf |-> b, buf_idx |-> idx, out |-> <<>>, reads |-> <<>>,
             writes |-> <<>>, delay |-> delay, underflow |-> TRUE,
             ok |-> FALSE]
       ELSE LET st == RunLoop(st0, 1, input, base, mix, idx, len)
            IN [buf       |-> st.buf,
                buf_idx   |-> IF st.ok /\ len > 0
                              THEN Advance(idx, n, len) ELSE idx,
                out       |-> st.out,
                reads     |-> st.reads,
                writes    |-> st.writes,
                delay     |-> delay,
                underflow |-> under,
                ok        |-> st.ok /\ len > 0]

\* the builds whose outcomes differ for a call: with an underflowing
\* subtraction a build with overflow checks panics and one without wraps
Builds(b, idx, rate, ticks) ==
    IF \E c \in 1..2 :
          ReadBase(idx, BLen(b), DelaySamples(ticks[c], rate)) < 0
    THEN BOOLEAN ELSE {FALSE}

\* ------------------------------------------------------------------------
\* One plugin instance driven by a host.
\*   sample_rate, buf, buf_idx : the fields of Delay
\*   phase  : "created", "active" or "panicked"
\*   total  : frames processed since the last activation
\*   call   : what the last call did, until the host has consumed it
\*   hist   : the stream fed since the last activation and its outputs
\*   other  : a second instance run side by side

VARIABLES sample_rate, buf, buf_idx, phase, total, call, hist, other

vars == <<sample_rate, buf, buf_idx, phase, total, call, hist, other>>

NoCall == [op |-> "none"]
NoHist == [on |-> FALSE]
NoOther == [on |-> FALSE]

\* the record of a run call made in state (b, idx)
RunRecord(r, b, idx, input, ticks, mix) ==
    [op |-> "run", input |-> input, ticks |-> ticks, dry_wet |-> mix,
     delay |-> r.delay, out |-> r.out, reads |-> r.reads,
     writes |-> r.writes, underflow |-> r.underflow, ok |-> r.ok,
     len |-> BLen(b), idx |-> idx]

\* the record of an activate call made in state (b, idx)
ActivateRecord(b, idx) ==
    [op |-> "activate", len |-> BLen(b), idx |-> idx,
     dirty |-> \E j \in DOMAIN b : b[j] # Silence]

\* new_delay
Init ==
    /\ sample_rate \in SampleRates
    /\ buf = EmptyBuf
    /\ buf_idx = 0
    /\ phase = "created"
    /\ total = 0
    /\ call = NoCall
    /\ hist = NoHist
    /\ other = NoOther

\* Delay::activate
Activate ==
    /\ phase # "panicked"
    /\ call = NoCall
    /\ buf' = ClearResize(buf, BufLen(sample_rate))
    /\ buf_idx' = 0
    /\ phase' = "active"
    /\ total' = 0
    /\ call' = ActivateRecord(buf, buf_idx)
    /\ UNCHANGED <<sample_rate, hist, other>>

\* Delay::run on a block of input frames and the control port values
Run ==
    /\ phase # "panicked"
    /\ call = NoCall
    /\ \E input \in {b \in Blocks : total + Len(b) <= MaxFrames},
          ticks \in AllTicks \X AllTicks, mix \in Mixes \X Mixes :
         \E checks \in Builds(buf, buf_idx, sample_rate, ticks) :
         \E r \in {RunCall(buf, buf_idx, sample_rate, checks, input, ticks,
                           mix)} :
            /\ buf' = r.buf
            /\ buf_idx' = r.buf_idx
            /\ phase' = IF r.ok THEN phase ELSE "panicked"
            /\ total' = IF r.ok THEN total + Len(input) ELSE total
            /\ call' = RunRecord(r, buf, buf_idx, input, ticks, mix)
    /\ UNCHANGED <<sample_rate, hist, other>>

\* the host has consumed the outputs of the last call
Return ==
    /\ call # NoCall
    /\ call' = NoCall
    /\ UNCHANGED <<sample_rate, buf, buf_idx, phase, total, hist, other>>

Next == Activate \/ Run \/ Return

Spec == Init /\ [][Next]_vars

\* ------------------------------------------------------------------------
\* A stream fed in blocks with the control ports held fixed: the host's delay
\* and mix values are chosen once and every run call uses them; hist keeps the
\* frames fed since the last activation, the frames put out, and the sizes of
\* the non-empty blocks used.

FreshHist(ticks, mix) ==
    [on |-> TRUE, ticks |-> ticks, dry_wet |-> mix, stream |-> <<>>,
     outs |-> <<>>, sizes |-> {}]

InitStream ==
    /\ sample_rate \in SampleRates
    /\ buf = EmptyBuf
    /\ buf_idx = 0
    /\ phase = "created"
    /\ total = 0
    /\ call = NoCall
    /\ hist \in {FreshHist(ticks, mix) :
                   ticks \in StreamTicks \X StreamTicks,
                   mix \in Mixes \X Mixes}
    /\ other = NoOther

ActivateFixed ==
    /\ phase # "panicked"
    /\ buf' = ClearResize(buf, BufLen(sample_rate))
    /\ buf_idx' = 0
    /\ phase' = "active"
    /\ total' = 0
    /\ hist' = FreshHist(hist.ticks, hist.dry_wet)
    /\ UNCHANGED <<sample_rate, call, other>>

RunFixed ==
    /\ phase = "active"
    /\ \E input \in {b \in Blocks : total + Len(b) <= MaxFrames} :
         \E checks \in Builds(buf, buf_idx, sample_rate, hist.ticks) :
         \E r \in {RunCall(buf, buf_idx, sample_rate, checks, input,
                           hist.ticks, hist.dry_wet)} :
            /\ buf' = r.buf
            /\ buf_idx' = r.buf_idx
            /\ phase' = IF r.ok THEN phase ELSE "panicked"
            /\ total' = IF r.ok THEN total + Len(input) ELSE total
            /\ hist' = [hist EXCEPT !.stream = @ \o input,
                                    !.outs = @ \o r.out,
                                    !.sizes = @ \cup ({Len(input)} \ {0})]
    /\ UNCHANGED <<sample_rate, call, other>>

NextStream == ActivateFixed \/ RunFixed

SpecStream == InitStream /\ [][NextStream]_vars

\* ------------------------------------------------------------------------
\* Two executions side by side: two instances created with the same sample
\* rate and driven by the same sequence of calls, whose ports agree on one
\* channel (input, delay, mix) and are free on the other channel, other.free.
\* The first instance is (buf, buf_idx, call), the second is other.

PairFrames == {0, 2} \X {0, 4}

PairBlocks == UNION {[1..n -> PairFrames] : n \in 0..MaxBlock}

\* the channel that is not c
Opposite(c) == 3 - c

\* the blocks that agree with block b on channel c
SameOn(b, c) ==
    {d \in PairBlocks :
        Len(d) = Len(b) /\ \A i \in 1..Len(b) : d[i][c] = b[i][c]}

\* the pair of port values with v on the free channel and s on the other
Ports(free, v, s) == IF free = 1 THEN <<v, s>> ELSE <<s, v>>

InitPair ==
    /\ sample_rate \in SampleRates
    /\ buf = EmptyBuf
    /\ buf_idx = 0
    /\ phase = "created"
    /\ total = 0
    /\ call = NoCall
    /\ hist = NoHist
    /\ \E free \in 1..2 :
         other = [on |-> TRUE, free |-> free, buf |-> EmptyBuf, buf_idx |-> 0,
                  call |-> NoCall]

ActivatePair ==
    /\ phase # "panicked"
    /\ call = NoCall
    /\ buf' = ClearResize(buf, BufLen(sample_rate))
    /\ buf_idx' = 0
    /\ phase' = "active"
    /\ total' = 0
    /\ call' = ActivateRecord(buf, buf_idx)
    /\ other' = [other EXCEPT
                   !.buf = ClearResize(other.buf, BufLen(sample_rate)),
                   !.buf_idx = 0,
                   !.call = ActivateRecord(other.buf, other.buf_idx)]
    /\ UNCHANGED <<sample_rate, hist>>

RunPair ==
    /\ phase = "active"
    /\ call = NoCall
    /\ \E input \in {b \in PairBlocks : total + Len(b) <= MaxPairFrames},
          stick \in PairTicks, smix \in PairMixes,
          ftick \in PairTicks \X PairTicks, fmix \in PairMixes \X PairMixes :
         \E input2 \in SameOn(input, Opposite(other.free)) :
         LET ticks1 == Ports(other.free, ftick[1], stick)
             ticks2 == Ports(other.free, ftick[2], stick)
             mix1   == Ports(other.free, fmix[1], smix)
             mix2   == Ports(other.free, fmix[2], smix)
         IN
         \E c1 \in Builds(buf, buf_idx, sample_rate, ticks1),
            c2 \in Builds(other.buf, other.buf_idx, sample_rate, ticks2) :
         \E r \in {RunCall(buf, buf_idx, sample_rate, c1, input, ticks1,
                           mix1)},
            q \in {RunCall(other.buf, other.buf_idx, sample_rate, c2, input2,
                           ticks2, mix2)} :
            /\ buf' = r.buf
            /\ buf_idx' = r.buf_idx
            /\ phase' = IF r.ok /\ q.ok THEN phase ELSE "panicked"
            /\ total' = total + Len(input)
            /\ call' = RunRecord(r, buf, buf_idx, input, ticks1, mix1)
            /\ other' = [other EXCEPT
                           !.buf = q.buf,
                           !.buf_idx = q.buf_idx,
                           !.call = RunRecord(q, other.buf, other.buf_idx,
                                              input2, ticks2, mix2)]
    /\ UNCHANGED <<sample_rate, hist>>

ReturnPair ==
    /\ call # NoCall
    /\ call' = NoCall
    /\ other' = [other EXCEPT !.call = NoCall]
    /\ UNCHANGED <<sample_rate, buf, buf_idx, phase, total, hist>>

NextPair == ActivatePair \/ RunPair \/ ReturnPair

SpecPair == InitPair /\ [][NextPair]_vars

\* ------------------------------------------------------------------------
\* Properties

Channels == 1..2

\* the delay in samples of channel c for the fixed ports of hist
HistDelay(c) == DelaySamples(hist.ticks[c], sample_rate)

\* the instance as activate leaves a newly created one
FreshLen == sample_rate * MAX_DELAY + 1
FreshBuf == [j \in 0..(FreshLen - 1) |-> <<0, 0>>]

\* the stream of hist is a unit impulse at frame 0
IsImpulse(str) ==
    /\ Len(str) >= 1
    /\ str[1] = Unit
    /\ \A k \in 2..Len(str) : str[k] = Silence

\* C1: with the delay and mix ports held fixed, the outputs of the run calls
\* made since a fresh activation, concatenated, are the output of one run
\* call over the concatenated input on a freshly activated instance.
C1_BlockSizeInvariance ==
    phase = "active" /\ hist.on =>
        hist.outs = RunCall(FreshBuf, 0, sample_rate, FALSE, hist.stream,
                            hist.ticks, hist.dry_wet).out

\* a stream longer than the buffer, fed in blocks of sizes 1 and 2, that put
\* out frames read back from the buffer
C1_Witness ==
    /\ phase = "active" /\ hist.on
    /\ sample_rate = 1
    /\ hist.sizes = {1, 2}
    /\ Len(hist.stream) > BLen(buf)
    /\ hist.outs # hist.stream
    /\ \E k \in 1..Len(hist.outs) : hist.outs[k] # Silence

\* C2: fully wet, with a fixed delay of D samples, 0 <= D < buffer length, a
\* unit impulse at frame 0 of a stream of at least D + 1 frames comes out as
\* 1 at frame D and 0 at every other frame, on each channel.
C2_ImpulseDelayedExactly ==
    ( /\ phase = "active" /\ hist.on
      /\ sample_rate > 0
      /\ hist.dry_wet = <<One, One>>
      /\ IsImpulse(hist.stream)
      /\ \A c \in Channels :
            HistDelay(c) < BLen(buf) /\ Len(hist.stream) >= HistDelay(c) + 1 )
    => \A c \in Channels : \A k \in 1..Len(hist.stream) :
          hist.outs[k][c] = IF k - 1 = HistDelay(c) THEN Unit[c] ELSE 0

\* C3: in a run call with delay 0 and mix 1.0 on a channel, every output
\* frame of that channel is the input frame of the same index.
C3_ZeroDelayZeroLatency ==
    call.op = "run" /\ call.len > 0 /\ sample_rate > 0 =>
        \A c \in Channels :
            call.delay[c] = 0 /\ call.dry_wet[c] = One =>
                \A i \in 1..Len(call.out) : call.out[i][c] = call.input[i][c]

\* C4: in a run call after activation with both mix coefficients 0.0, every
\* output frame equals the input frame of the same index, whatever the
\* delays, the buffer contents and the cursor; a call that completes puts
\* out the whole input block.
C4_FullDryPassthrough ==
    call.op = "run" /\ call.len > 0 /\ call.dry_wet = <<0, 0>> =>
        /\ \A i \in 1..Len(call.out) : call.out[i] = call.input[i]
        /\ call.ok => call.out = call.input

\* a fully dry call whose second frame reads the non-silent first frame back
\* from the buffer, at a cursor other than 0
C4_Witness ==
    /\ call.op = "run" /\ call.ok
    /\ call.dry_wet = <<0, 0>>
    /\ call.delay = <<1, 1>>
    /\ call.idx = 5
    /\ call.input = <<Unit, Silence>>

\* every buffer index the call used for a read or a write is inside the buffer
IndicesInside(cl) ==
    /\ \A i \in 1..Len(cl.reads) : \A c \in Channels :
          cl.reads[i][c] \in 0..(cl.len - 1)
    /\ \A i \in 1..Len(cl.writes) : cl.writes[i] \in 0..(cl.len - 1)

\* C5: after an activation with positive sample rate, a run call with both
\* delays in [0, MAX_DELAY] seconds computes its read indices without
\* underflow, completes, asks for at most buffer length - 1 samples of delay,
\* and reads and writes only inside the buffer.
C5_InRangeNoFailure ==
    ( /\ call.op = "run" /\ call.len > 0
      /\ sample_rate > 0
      /\ \A c \in Channels : InRange(call.ticks[c]) )
    => /\ ~call.underflow
       /\ call.ok
       /\ \A c \in Channels : call.delay[c] <= call.len - 1
       /\ Len(call.out) = Len(call.input)
       /\ Len(call.reads) = Len(call.input)
       /\ Len(call.writes) = Len(call.input)
       /\ IndicesInside(call)

\* a call at cursor 0 with exactly the maximum delay on the left channel
C5_Witness ==
    /\ call.op = "run" /\ call.ok
    /\ sample_rate = 1
    /\ call.idx = 0
    /\ call.ticks[1] = MAX_DELAY * DelayDen
    /\ call.delay[1] = call.len - 1
    /\ Len(call.input) = MaxBlock

\* C6: a run call after activation whose delay in samples is at or above the
\* buffer length completes without an error: the read-index subtraction does
\* not underflow and every read falls inside the buffer.
C6_OutOfRangeNeverErrors ==
    ( /\ call.op = "run" /\ call.len > 0
      /\ \E c \in Channels : call.delay[c] >= call.len )
    => /\ ~call.underflow
       /\ call.ok
       /\ IndicesInside(call)

\* C7: after activate, called in any state, the buffer has
\* floor(sample_rate * 5) + 1 frames of silence and the cursor is 0: the
\* instance is in the state of a newly created and activated one.
C7_ActivationResets ==
    call.op = "activate" =>
        /\ BLen(buf) = FreshLen
        /\ \A j \in DOMAIN buf : buf[j] = <<0, 0>>
        /\ buf = FreshBuf
        /\ buf_idx = 0
        /\ total = 0

\* a re-activation of an instance whose buffer held input and whose cursor
\* had moved
C7_Witness ==
    /\ call.op = "activate"
    /\ call.dirty
    /\ call.idx # 0
    /\ call.len = 6

\* the instance cannot process: it is not active or has no buffer
Unusable == phase # "active" \/ BLen(buf) = 0

Shared == Opposite(other.free)

\* C9: the outputs of a channel depend only on that channel's input, delay
\* and mix: two executions that agree on one channel and differ on the other
\* put out the same frames on the channel they agree on, and keep the same
\* samples of it in their buffers.
C9_ChannelIndependence ==
    other.on =>
        /\ buf_idx = other.buf_idx
        /\ \A j \in DOMAIN buf : buf[j][Shared] = other.buf[j][Shared]
        /\ call.op = "run" =>
              /\ other.call.op = "run"
              /\ Len(call.out) = Len(other.call.out)
              /\ \A i \in 1..Len(call.out) :
                    call.out[i][Shared] = other.call.out[i][Shared]

\* two calls that differ in the free channel's input, delay and mix and put
\* out a non-silent wet frame on the shared channel
C9_Witness ==
    /\ other.on
    /\ call.op = "run" /\ other.call.op = "run"
    /\ sample_rate = 1
    /\ call.dry_wet[Shared] = One
    /\ call.delay[other.free] # other.call.delay[other.free]
    /\ call.dry_wet[other.free] # other.call.dry_wet[other.free]
    /\ \E i \in 1..Len(call.input) :
          call.input[i][other.free] # other.call.input[i][other.free]
    /\ \E i \in 1..Len(call.out) : call.out[i][Shared] # 0
    /\ \E i \in 1..Len(call.out) :
          call.out[i][other.free] # other.call.out[i][other.free]

\* C10: after a fresh activation, a stream of silence puts out silence on
\* both channels, for every mix and every in-range delay.
C10_SilenceInSilenceOut ==
    ( /\ phase = "active" /\ hist.on
      /\ \A k \in 1..Len(hist.stream) : hist.stream[k] = Silence )
    => /\ Len(hist.outs) = Len(hist.stream)
       /\ \A k \in 1..Len(hist.outs) : hist.outs[k] = <<0, 0>>

\* more frames of silence than the buffer holds, fully wet on the left and
\* half wet on the right
C10_Witness ==
    /\ phase = "active" /\ hist.on
    /\ sample_rate = 1
    /\ Len(hist.stream) > BLen(buf)
    /\ \A k \in 1..Len(hist.stream) : hist.stream[k] = Silence
    /\ hist.dry_wet = <<One, 1>>
    /\ hist.sizes = {1, 2}

\* C11: in a run call whose delay in samples is at or above the buffer
\* length, the wet sample read for every frame is the one a delay of
\* buffer length - 1 samples would read: the delay saturates.
C11_DelaySaturates ==
    call.op = "run" /\ call.len > 0 /\ call.ok =>
        \A c \in Channels :
            call.delay[c] >= call.len =>
                \A i \in 1..Len(call.reads) :
                    call.reads[i][c] =
                        ReadIdx(ReadBase(call.idx, call.len, call.len - 1),
                                i - 1, call.len)

\* C12: between calls the cursor is the number of frames processed since
\* the last activation modulo the buffer length, hence inside the buffer;
\* a completed run call has advanced the cursor once, by its block size,
\* and every frame of the block was written relative to the cursor the
\* call started with.
C12_CursorInvariant ==
    /\ phase = "active" =>
           /\ buf_idx = total % BLen(buf)
           /\ 0 <= buf_idx /\ buf_idx < BLen(buf)
    /\ call.op = "run" /\ call.ok =>
           /\ buf_idx = (call.idx + Len(call.input)) % call.len
           /\ Len(call.writes) = Len(call.input)
           /\ \A i \in 1..Len(call.writes) :
                  call.writes[i] = (call.idx + (i - 1)) % call.len

\* a block of two frames was processed across the end of a six-frame buffer
C12_Witness ==
    /\ phase = "active" /\ BLen(buf) = 6
    /\ call.op = "run" /\ call.ok
    /\ call.idx = 5 /\ Len(call.input) = 2
    /\ total = 7 /\ buf_idx = 1

\* the stream positions (counted from 0) below T that fall on slot j of a
\* buffer of len frames
SlotPositions(j, T, len) == {t \in 0..(T - 1) : t % len = j}

\* the largest element of a non-empty finite set of numbers
Largest(S) == CHOOSE t \in S : \A u \in S : u <= t

\* C13: with T frames processed since the last activation, slot j of the
\* buffer holds the raw input frame, both channels, of the largest stream
\* position t < T with t mod buffer length = j, or silence if there is none,
\* whatever the delay and mix values of the calls were.
C13_RingContents ==
    hist.on /\ phase = "active" =>
        /\ total = Len(hist.stream)
        /\ \A j \in DOMAIN buf :
               LET ts == SlotPositions(j, total, BLen(buf))
               IN  buf[j] = IF ts = {} THEN Silence
                            ELSE hist.stream[Largest(ts) + 1]

\* seven frames went through a six-frame buffer with a wet signal mixed in:
\* slot 0 holds the seventh frame, which differs from the first
C13_Witness ==
    /\ hist.on /\ phase = "active" /\ BLen(buf) = 6
    /\ Len(hist.stream) = 7
    /\ hist.stream[1] = Silence /\ hist.stream[7] = Unit
    /\ buf[0] = Unit /\ buf[1] = Unit
    /\ hist.dry_wet = <<2, 1>> /\ hist.ticks = <<3, 0>>
    /\ hist.outs[3] # hist.stream[3]

\* the run calls C14 speaks of: completed, the block no longer than the
\* buffer, both delays inside the declared range
InBlockCall ==
    /\ call.op = "run" /\ call.ok /\ call.len > 0
    /\ Len(call.input) <= call.len
    /\ \A c \in Channels : InRange(call.ticks[c])

\* C14 as stated, for the delays of at least one sample: in a run call with
\* block size <= buffer length, the position written for frame i is never
\* the position read for the same frame i or for a later frame j of that
\* block, on either channel.
C14_NoAliasing ==
    InBlockCall =>
        \A c \in Channels :
            call.delay[c] >= 1 =>
                \A i \in 1..Len(call.input) :
                    \A j \in i..Len(call.input) :
                        call.writes[i] # call.reads[j][c]

\* C14, amended: in such a call the position written for frame i is the
\* position read for frame j >= i on a channel exactly when j - i is that
\* channel's delay in samples, so there is no aliasing only for the delays
\* of at least the block size.
C14_AliasingExactlyAtDelay ==
    InBlockCall =>
        \A c \in Channels :
            \A i \in 1..Len(call.input) :
                \A j \in i..Len(call.input) :
                    (call.writes[i] = call.reads[j][c]) <=>
                        (j - i = call.delay[c])

\* a block of two frames with a left delay of one sample and a right delay of
\* five: the second frame reads on the left the slot the first frame wrote,
\* and nothing aliases on the right
C14_Witness ==
    /\ InBlockCall /\ call.len = 6 /\ Len(call.input) = 2
    /\ call.delay = <<1, 5>>
    /\ call.writes[1] = call.reads[2][1]
    /\ call.writes[1] # call.reads[2][2]
    /\ call.writes[1] # call.reads[1][2]

\* the slots a block of n frames starting at the cursor idx may write
BlockSlots(idx, n, len) == {(idx + i) % len : i \in 0..(n - 1)}

\* C15: a run call never changes the number of frames in the buffer, and
\* of the instance it changes only the cursor and the slots at the positions
\* (cursor + i) mod buffer length for i below the block size; only an
\* activation changes the buffer length.
C15_BufferLengthFrozen ==
    [][ /\ (call.op = "none" /\ call'.op = "run") =>
               /\ DOMAIN buf' = DOMAIN buf
               /\ sample_rate' = sample_rate
               /\ \A j \in DOMAIN buf :
                      buf'[j] # buf[j] =>
                          j \in BlockSlots(buf_idx, Len(call'.input),
                                           BLen(buf))
        /\ call'.op # "activate" => BLen(buf') = BLen(buf) ]_vars

\* a block of two non-silent frames was written across the end of a six-frame
\* buffer whose other slots kept what they held
C15_Witness ==
    /\ call.op = "run" /\ call.ok /\ call.len = 6 /\ BLen(buf) = 6
    /\ call.idx = 5 /\ call.input = <<Unit, Unit>>
    /\ buf[5] = Unit /\ buf[0] = Unit
    /\ buf[2] = Unit /\ buf[3] = Silence
    /\ buf_idx = 1

\* C16: an instance created and never activated has an empty buffer, and a
\* run call on an empty buffer does not complete for any block size, the
\* empty block included, and puts nothing out; a run call that completes
\* found a buffer of at least one frame, which only activate allocates.
C16_RunBeforeActivateFails ==
    /\ phase = "created" => BLen(buf) = 0 /\ buf_idx = 0
    /\ call.op = "run" /\ call.len = 0 =>
           /\ ~call.ok /\ phase = "panicked"
           /\ call.out = <<>> /\ call.writes = <<>>
           /\ BLen(buf) = 0 /\ buf_idx = call.idx
    /\ call.op = "run" /\ call.ok => call.len > 0

\* a run call with the empty block and both delays 0 on a created instance:
\* nothing underflows, and the call fails on the remainder by the length 0
C16_Witness ==
    /\ call.op = "run" /\ call.len = 0
    /\ call.input = <<>> /\ call.delay = <<0, 0>>
    /\ ~call.underflow /\ ~call.ok
    /\ phase = "panicked"

====
